---- MODULE Spec2Model ----
(***************************************************************************)
(* Model of evo::UThread (src/common/thread.cpp, src/common/thread.hpp):   *)
(* the managed worker thread, its state machine, and the calls other       *)
(* threads make on it.                                                     *)
(*                                                                         *)
(* Granularity.  Every field of a UThread is read and written under its    *)
(* state mutex, except the unlocked reads of thread_ (thread_exists(),    *)
(* is_current_thread()) at the top of some methods.  One action of the     *)
(* model is therefore one critical section: from LockState() (or from the  *)
(* re-acquisition of the mutex when a condition wait returns) to the next  *)
(* condition wait or UnlockState().  The unlocked reads are actions of     *)
(* their own.                                                              *)
(*                                                                         *)
(* Condition variables.  waiting[c] is the set of threads blocked on       *)
(* condition c; notify empties it; a thread whose pc is a wait and which   *)
(* is no longer in the set has been signalled (or has timed out) and       *)
(* resumes once it gets the mutex.  Wake-ups without a notify or a timeout *)
(* are not modelled.                                                       *)
(*                                                                         *)
(* Assertions are compiled out (NDEBUG): a failed assert does not stop the *)
(* run, the code after it executes.                                        *)
(*                                                                         *)
(* Results.  ev records the call that returned in the last step, with its  *)
(* arguments and result, so that what a call returns can be related to the *)
(* object's fields at the moment it returns.  listener_calls, likewise,    *)
(* holds the listener invocation made in the last step.                    *)
(*                                                                         *)
(* The thread function is the loop "while (kContinue == ProcState())",     *)
(* between whose iterations it may call RequestState or SetSelfExiting; it *)
(* returns when ProcState returns kExit.                                   *)
(***************************************************************************)
EXTENDS Integers, FiniteSets, Sequences, TLC

\* Number of threads, other than the managed thread, that call the object.
NumCallers == 2

\* Number of calls the callers and the thread function make in one run
\* (ProcState, which the thread function calls in a loop, is not counted).
MaxCalls == 4

\* Number of calls in one run of the Pause/Unpause cycling (SpecPause)
MaxPauseCalls == 6

\* Number of UThread objects in the list passed to RequestStateMultiple
\* (SpecMultiple)
NumParticipants == 2

\* The UThread objects, and the threads of the model.
UThreads == {1}
Callers == {<<"caller", i>> : i \in 1..NumCallers}
MT(u) == <<"uthread", u>>
Threads == Callers \cup {MT(u) : u \in UThreads}
NoThread == <<"none", 0>>

\* The objects and threads of the model of RequestStateMultiple: the thread
\* that starts the objects and calls RequestStateMultiple, one
\* RequestStateMultipleHelper thread per object, and a thread that makes
\* other calls on the objects (Other(u) when it is in a call on object u).
Participants == 1..NumParticipants
Coordinator == <<"coordinator", 0>>
Helper(u) == <<"helper", u>>
Other(u) == <<"other", u>>
MultiThreads ==
  {Coordinator} \cup {MT(u) : u \in Participants}
    \cup {Helper(u) : u \in Participants} \cup {Other(u) : u \in Participants}

\* the object a thread calls: the callers call the one object of Spec, the
\* other threads the object they are named after
U1 == CHOOSE u \in UThreads : TRUE
Obj(t) == IF t[1] = "caller" THEN U1 ELSE t[2]

\* enum class State (thread.hpp)
States == {"Invalid", "Init", "Go", "Idle", "Exiting", "Exited"}

\* enum class CycleWait and the period, abstracted to zero / positive
CycleWaitTypes == {"Absolute", "Relative", "Indefinite"}
Periods == {"zero", "pos"}

\* RequestState's timeout argument: Duration(0) (Blocking::kOff),
\* Duration::Min() (Blocking::kOn)
Blockings == {"kOff", "kOn"}

\* The condition variables of a UThread
Conds == {"state_ready_cond_", "idle_ready_cond_", "go_ready_cond_",
          "go_cond_", "paused_cond_", "unpause_cond_"}

VARIABLES
  ut,     \* ut[u]: the fields of UThread object u
  th,     \* th[t]: where thread t is, and the arguments of the call it is in
  ev,     \* the call that returned in the last step, with its result
  calls   \* the number of calls made so far

vars == <<ut, th, ev, calls>>

-----------------------------------------------------------------------------
\* Helpers on a UThread record r

thread_exists(r) == r.thread_

\* A variant of is_current_thread that takes every caller for another thread.
is_current_thread_never(r, t, u) == FALSE

is_current_thread(r, t, u) == r.thread_ /\ t = MT(u)

is_available(r) ==
  /\ r.state_ # "Exiting" /\ r.state_ # "Exited"
  /\ r.requested_state_ # "Exiting" /\ r.requested_state_ # "Exited"

is_state_changing(r) == r.requested_state_ # "Invalid"

SetStateInternal(r, new_state) ==
  [r EXCEPT !.prev_state_ = r.state_, !.state_ = new_state]

\* cond.notify_all() / notify_one().  go_cond_ and unpause_cond_, the two
\* conditions signalled with notify_one, have the managed thread as their
\* only waiter.
Notify(r, c) == [r EXCEPT !.waiting[c] = {}]

\* the wait of StateCondWaitUntil: the caller joins the waiters of c
CondWait(r, c, t) == [r EXCEPT !.waiting[c] = @ \cup {t}]

\* every registered state-change listener is invoked with (state_, prev_state_);
\* listener_calls holds the invocation made in the last step, if any
NoListenerCall == [called |-> FALSE, new_state |-> "Invalid", prev_state |-> "Invalid"]

InvokeListeners(r) ==
  [r EXCEPT !.listener_calls =
      [called |-> TRUE, new_state |-> r.state_, prev_state |-> r.prev_state_]]

JoinInternal(r) ==
  IF ~r.is_joined_with_thread_ /\ r.thread_
    THEN [r EXCEPT !.is_joined_with_thread_ = TRUE]
    ELSE r

\* What a critical section ends with: a return (k = "ret") with result res,
\* or a condition wait (k = "wait") at place `at`.
Ret(r, res) == [r |-> r, k |-> "ret", res |-> res, at |-> "none"]
Blk(r, at) == [r |-> r, k |-> "wait", res |-> "none", at |-> at]

-----------------------------------------------------------------------------
\* UThread::Init
InitUThread(type, period) ==
  [ thread_ |-> FALSE,
    state_ |-> "Invalid",
    requested_state_ |-> "Invalid",
    prev_state_ |-> "Invalid",
    cycle_wait_type_ |-> type,
    cycle_wait_period_ |-> period,
    is_joined_with_thread_ |-> FALSE,
    is_paused_ |-> FALSE,
    is_pause_pending_ |-> FALSE,
    is_between_cycles_ |-> FALSE,
    state_ready_mutex_ |-> NoThread,
    in_progress |-> FALSE,  \* set_state_multiple_info_.in_progress
    registered |-> FALSE,   \* g_uthread_registry holds the managed thread's entry
    \* history of a RequestStateMultiple call ("untracked" without one): the
    \* state has been Go since RequestStateMultiple_Prepare; ProcState has
    \* returned since the call prepared the last thread of its list
    rsm_went_go |-> "untracked",
    rsm_resumed |-> "untracked",
    idle_applied |-> FALSE, \* history: the thread has applied Idle since Start
    \* history: what the thread's last ProcState call returned ("none" before
    \* the first return), and whether a call had returned kExit before it
    last_procstate |-> "none",
    waiting |-> [c \in Conds |-> {}],
    listener_calls |-> NoListenerCall ]

\* A thread that is in no call of the model: a caller between calls, the
\* managed thread in its thread function.  procres is the value ProcState
\* returns once the thread leaves its pause park.  exiting is a history
\* field: whether Exiting was pending or effective when the RequestState call
\* took the state mutex.  found, likewise: the request that was pending when
\* a RequestState call that returned from its first critical section took
\* the state mutex.  exit_seen: the state was Exiting or Exited when the
\* timed wait of the call expired.
NoCall == [pc |-> "idle", op |-> "none", newstate |-> "Invalid",
           block |-> "kOff", timedout |-> FALSE, procres |-> "none",
           exiting |-> FALSE, found |-> "Invalid", exit_seen |-> FALSE,
           res |-> "none"]

Home(t) == IF t[1] = "uthread" THEN "body" ELSE "idle"

AtHome(t) == [NoCall EXCEPT !.pc = Home(t)]

\* Where thread t is after its call has returned res.  The one call of a
\* RequestStateMultipleHelper thread is the whole of its thread function:
\* the thread keeps the result (a result other than SUCCESS is pushed to
\* failures_out) and can be joined.
AfterCall(t, res) ==
  IF t[1] = "helper"
    THEN [NoCall EXCEPT !.pc = "joinable", !.res = res]
    ELSE AtHome(t)

\* history: a tracked flag is raised
Raised(v) == IF v = "no" THEN "yes" ELSE v

\* history: ProcState returns procres after the returns recorded in v
ProcStateReturned(v, procres) ==
  IF v \in {"none", "kContinue"} THEN procres
  ELSE IF procres = "kExit" THEN "kExitAgain" ELSE "kContinueAfterExit"

\* at is the place the call returned from; exiting is the call's history field
NoEvent == [t |-> NoThread, op |-> "none", newstate |-> "Invalid",
            block |-> "kOff", res |-> "none", at |-> "none", exiting |-> FALSE,
            found |-> "Invalid", exit_seen |-> FALSE]

Returned(t, pc, c, res) ==
  [t |-> t, op |-> c.op, newstate |-> c.newstate, block |-> c.block,
   res |-> res, at |-> pc, exiting |-> c.exiting, found |-> c.found,
   exit_seen |-> c.exit_seen]

-----------------------------------------------------------------------------
\* UThread::StateWaitFor (StateWait is StateWaitFor with Duration::Min())

\* the condition StateWaitFor waits on for desired_state
StateCond(desired_state) ==
  CASE desired_state = "Idle" -> "idle_ready_cond_"
    [] desired_state = "Go"   -> "go_ready_cond_"
    [] OTHER                  -> "state_ready_cond_"

\* the head of the while loop, mutex held
StateWaitFor_loop(r, t, desired_state) ==
  IF r.state_ = desired_state
    THEN Ret(IF r.state_ = "Exited" THEN JoinInternal(r) ELSE r, "SUCCESS")
  ELSE IF r.state_ = "Exited"
    THEN Ret(JoinInternal(r), "RESOURCE_UNAVAILABLE")
  ELSE IF r.state_ = "Exiting" /\ desired_state \notin {"Exiting", "Exited"}
    THEN Ret(r, "SHUTTING_DOWN")
  ELSE Blk(CondWait(r, StateCond(desired_state), t), StateCond(desired_state))

\* from the call to the first wait or return
StateWaitFor_call(r, t, u, desired_state) ==
  IF ~thread_exists(r) THEN Ret(r, "NOT_INIT")
  ELSE IF desired_state = "Init" THEN Ret(r, "INVALID_ARGUMENT")
  ELSE IF is_current_thread(r, t, u) THEN Ret(r, "THREAD_RESTRICTION")
  ELSE StateWaitFor_loop(r, t, desired_state)

\* the condition wait has returned and the mutex is held again
StateWaitFor_wake(r, t, desired_state, timedout) ==
  IF timedout THEN Ret(r, "TIMED_OUT")
  ELSE IF desired_state \in {"Idle", "Go"}
    THEN Ret(IF r.state_ = "Exited" THEN JoinInternal(r) ELSE r, "SUCCESS")
  ELSE StateWaitFor_loop(r, t, desired_state)

-----------------------------------------------------------------------------
\* UThread::RequestState(newstate, timeout)

\* the head of the blocking branch's while loop, mutex held
RequestState_loop(r, t, u, newstate) ==
  IF newstate = r.state_ THEN Ret(r, "SUCCESS")
  ELSE IF r.state_ = "Exiting" THEN Ret(r, "SHUTTING_DOWN")
  ELSE IF r.state_ = "Exited"
    THEN (IF newstate # "Exiting" THEN Ret(r, "RESOURCE_UNAVAILABLE")
                                  ELSE Ret(r, "SUCCESS"))
  ELSE LET r1 == Notify([r EXCEPT !.requested_state_ = newstate], "go_cond_")
           w  == StateWaitFor_call(r1, t, u, newstate)
       IN  \* StateWait cannot succeed at once here: state_ # newstate
           w

\* A variant of Unpause_locked that does not signal unpause_cond_.
Unpause_locked_no_signal(r) ==
  IF ~r.is_paused_
    THEN (IF r.is_pause_pending_
            THEN Ret([r EXCEPT !.is_pause_pending_ = FALSE], "SUCCESS")
            ELSE Ret(r, "STATE_ALREADY_EFFECTIVE"))
    ELSE Ret(r, "SUCCESS")

\* Unpause() from LockState() on (also the nested call made by RequestState)
Unpause_locked(r) ==
  IF ~r.is_paused_
    THEN (IF r.is_pause_pending_
            THEN Ret([r EXCEPT !.is_pause_pending_ = FALSE], "SUCCESS")
            ELSE Ret(r, "STATE_ALREADY_EFFECTIVE"))
    ELSE Ret(Notify(r, "unpause_cond_"), "SUCCESS")

\* "if (is_paused_) Unpause();" inside RequestState; the result is dropped
RequestState_unpause(r) ==
  IF r.is_paused_ THEN Unpause_locked(r).r ELSE r

\* A variant of RequestState_same that leaves a pending request in place.
RequestState_same_keeps_request(r) ==
  Ret(Notify(r, "state_ready_cond_"), "SUCCESS")

\* "if (newstate == state_)": the pending request is cancelled and the
\* threads waiting for a state are woken
RequestState_same(r) ==
  Ret(Notify([r EXCEPT !.requested_state_ = "Invalid"], "state_ready_cond_"),
      "SUCCESS")

\* A variant of RequestState_nonblocking in which a request for the state that
\* is already requested withdraws the request.
RequestState_nonblocking_toggle(r, newstate) ==
  Ret(Notify([r EXCEPT !.requested_state_ =
                          IF @ = newstate THEN "Invalid" ELSE newstate],
             "go_cond_"),
      "SUCCESS")

\* a variant in which the caller applies the state it asks for
RequestState_nonblocking_applies(r, newstate) ==
  Ret(SetStateInternal(Notify([r EXCEPT !.requested_state_ = "Invalid"],
                              "go_cond_"), newstate), "SUCCESS")

\* "if (Duration(0) == timeout)": the request is written and the managed
\* thread is woken
RequestState_nonblocking(r, newstate) ==
  Ret(Notify([r EXCEPT !.requested_state_ = newstate], "go_cond_"), "SUCCESS")

\* from LockState() to the first wait or return
RequestState_locked(r, t, u, newstate, block) ==
  IF r.state_ = "Exited" THEN Ret(r, "RESOURCE_UNAVAILABLE")
  ELSE IF r.state_ = "Exiting"
    THEN Ret(r, IF newstate = "Exiting" THEN "SUCCESS" ELSE "SHUTTING_DOWN")
  ELSE
    LET r1 == RequestState_unpause(r) IN
    IF r1.requested_state_ \in {"Exiting", "Exited"} /\ newstate # "Exiting"
      THEN Ret(r1, "SHUTTING_DOWN")
    ELSE IF newstate = r1.state_
      THEN RequestState_same(r1)
    ELSE IF block = "kOff"
      THEN RequestState_nonblocking(r1, newstate)
    ELSE IF is_current_thread(r1, t, u)
      THEN Ret(r1, "DEADLOCK_AVERTED")
    ELSE RequestState_loop(r1, t, u, newstate)

\* A variant of RequestState_wake that returns once StateWait succeeds,
\* without going round the while loop.
RequestState_wake_once(r, t, u, newstate, timedout) ==
  StateWaitFor_wake(r, t, newstate, timedout)

\* StateWait(newstate) has returned inside the loop, mutex held
RequestState_wake(r, t, u, newstate, timedout) ==
  LET w == StateWaitFor_wake(r, t, newstate, timedout) IN
  IF w.k = "wait" THEN w
  ELSE IF w.res = "SUCCESS" THEN RequestState_loop(w.r, t, u, newstate)
  ELSE w

\* A variant of RequestState_precheck that accepts every target.
RequestState_precheck_any_target(r, newstate) ==
  IF ~thread_exists(r) THEN "NOT_INIT" ELSE "none"

\* the checks made before LockState(); "none" when they pass
RequestState_precheck(r, newstate) ==
  IF ~thread_exists(r) THEN "NOT_INIT"
  ELSE IF newstate = "Init" THEN "INVALID_ARGUMENT"
  ELSE IF newstate = "Exited" THEN "INVALID_ARGUMENT"
  ELSE "none"

-----------------------------------------------------------------------------
\* UThread::Pause, UThread::ConsiderPause_locked

\* Pause() from LockState() to the wait on paused_cond_ or the return
Pause_locked(r, t) ==
  IF r.is_paused_ THEN Ret(r, "STATE_ALREADY_EFFECTIVE")
  ELSE IF ~is_available(r) THEN Ret(r, "RESOURCE_UNAVAILABLE")
  ELSE LET r1 == [r EXCEPT !.is_pause_pending_ = TRUE] IN
       IF r1.state_ = "Go" /\ r1.is_between_cycles_
         THEN Blk(CondWait(r1, "paused_cond_", t), "paused_cond_")
         ELSE Ret(r1, "SUCCESS")

\* ConsiderPause_locked() followed by the return of ProcState with procres:
\* every call of ConsiderPause_locked in ProcState is followed by
\* UnlockState() and a return.  When a pause is pending the thread parks on
\* unpause_cond_ and procres is kept for the return.
ConsiderPause_locked(r, t, procres) ==
  IF r.is_pause_pending_
    THEN [ r |-> CondWait(Notify([r EXCEPT !.is_pause_pending_ = FALSE,
                                           !.is_paused_ = TRUE],
                                 "paused_cond_"),
                          "unpause_cond_", t),
           k |-> "wait", res |-> procres, at |-> "paused" ]
    ELSE Ret(r, procres)

\* the wait on unpause_cond_ has returned: is_paused_ is cleared, ProcState returns
ConsiderPause_wake(r, procres) ==
  Ret([r EXCEPT !.is_paused_ = FALSE], procres)

-----------------------------------------------------------------------------
\* UThread::ProcState

\* from "if (handle_state_changed)" to the return: the listeners, the
\* broadcast of state_ready_cond_, ConsiderPause_locked
ProcState_finish(r, t, handle_state_changed, procres) ==
  LET r1 == IF handle_state_changed
              THEN Notify(InvokeListeners(r), "state_ready_cond_")
              ELSE r
  IN ConsiderPause_locked([r1 EXCEPT !.is_between_cycles_ = FALSE], t, procres)

\* "if (set_state_multiple_info_.in_progress)": the barrier of
\* RequestStateMultiple(kGo).  The thread goes on to lock the caller's
\* go_state_ready_mutex with its own state mutex held; the place it stops at
\* records handle_state_changed.  Without a call in progress ProcState goes
\* on to its end.
ProcState_barrier(r, t, handle_state_changed, procres) ==
  IF r.in_progress
    THEN [ r |-> [r EXCEPT !.state_ready_mutex_ = t],
           k |-> "wait", res |-> procres,
           at |-> IF handle_state_changed THEN "barrier_changed" ELSE "barrier" ]
    ELSE ProcState_finish(r, t, handle_state_changed, procres)

\* one pass of the do-while loop that applies requested_state_; the loop is
\* also where the thread continues when it wakes from its Idle park.  With a
\* RequestStateMultiple in progress the Idle case turns the request into Go
\* and the loop goes round into the Go case.
ProcState_loop(r, t) ==
  CASE r.requested_state_ = "Go" \/ (r.requested_state_ = "Idle" /\ r.in_progress) ->
         ProcState_barrier(
           SetStateInternal(Notify([r EXCEPT !.requested_state_ = "Invalid",
                                             !.rsm_went_go = Raised(@)],
                                   "go_ready_cond_"), "Go"),
           t, TRUE, "kContinue")
    [] r.requested_state_ = "Idle" ->
         Blk(CondWait(Notify(Notify(
               SetStateInternal([r EXCEPT !.requested_state_ = "Invalid",
                                          !.idle_applied = TRUE], "Idle"),
               "state_ready_cond_"), "idle_ready_cond_"), "go_cond_", t),
             "idlepark")
    [] r.requested_state_ = "Exiting" ->
         ProcState_barrier(
           [SetStateInternal(r, "Exiting") EXCEPT !.requested_state_ = "Invalid"],
           t, TRUE, "kExit")
    [] OTHER -> ProcState_barrier(r, t, FALSE, "kContinue")

\* "if (requested_state_ == state_) ... else do ... while"
ProcState_apply(r, t) ==
  IF r.requested_state_ = r.state_
    THEN ProcState_barrier([r EXCEPT !.requested_state_ = "Invalid",
                                     !.is_between_cycles_ = FALSE],
                           t, FALSE, "kContinue")
    ELSE ProcState_loop(r, t)

\* sleep_period of the cycle wait.  It is default-constructed (zero) and left
\* so for kIndefinite; kRelative sleeps the period; kAbsolute sleeps what is
\* left of it, nothing when the cycle already took that long (elapsed).
SleepPeriod(r, elapsed) ==
  CASE r.cycle_wait_type_ = "Relative" -> r.cycle_wait_period_
    [] r.cycle_wait_type_ = "Absolute" ->
         IF elapsed THEN "zero" ELSE r.cycle_wait_period_
    [] OTHER -> "zero"

\* a variant without the early return of a call made in state Exiting
ProcState_enter_unchecked(r, t, elapsed) ==
  LET r1 == [r EXCEPT !.is_between_cycles_ = TRUE] IN
  IF r1.requested_state_ = "Invalid"
    THEN IF r1.cycle_wait_period_ = "pos" \/ r1.cycle_wait_type_ = "Indefinite"
           THEN IF SleepPeriod(r1, elapsed) # "zero"
                  THEN Blk(CondWait(r1, "go_cond_", t), "cyclewait")
                  ELSE ProcState_apply(r1, t)
           ELSE ConsiderPause_locked([r1 EXCEPT !.is_between_cycles_ = FALSE],
                                     t, "kContinue")
    ELSE ProcState_apply(r1, t)

\* from LockState() to the first wait or the return
ProcState_enter(r, t, elapsed) ==
  IF r.state_ = "Exiting" THEN ConsiderPause_locked(r, t, "kExit")
  ELSE
    LET r1 == [r EXCEPT !.is_between_cycles_ = TRUE] IN
    IF r1.requested_state_ = "Invalid"
      THEN IF r1.cycle_wait_period_ = "pos" \/ r1.cycle_wait_type_ = "Indefinite"
             THEN IF SleepPeriod(r1, elapsed) # "zero"
                    THEN Blk(CondWait(r1, "go_cond_", t), "cyclewait")
                    ELSE ProcState_apply(r1, t)
             ELSE ConsiderPause_locked([r1 EXCEPT !.is_between_cycles_ = FALSE],
                                       t, "kContinue")
      ELSE ProcState_apply(r1, t)

\* the cycle wait on go_cond_ has returned (cycle_wait_changed_ is never set)
ProcState_cyclewake(r, t, timedout) ==
  IF timedout
    THEN ConsiderPause_locked([r EXCEPT !.is_between_cycles_ = FALSE],
                              t, "kContinue")
    ELSE ProcState_apply(r, t)

-----------------------------------------------------------------------------
\* UThread::_mainThreadFunc after the thread function has returned

\* state_ready_wait_count_: the threads inside StateCondWaitUntil
WaitPcs == {"rs_wait", "start_wait", "exit_rs_wait", "exit_wait", "pause_wait",
            "cyclewait", "idlepark", "paused", "sw_wait", "sleep_wait"}

state_ready_wait_count(thr, u) ==
  Cardinality({t \in DOMAIN thr : Obj(t) = u /\ thr[t].pc \in WaitPcs})

mainThreadFunc_exit(r, wait_count) ==
  LET r1 == IF wait_count > 0
              THEN Notify(Notify(Notify(r, "state_ready_cond_"),
                                 "idle_ready_cond_"), "go_ready_cond_")
              ELSE r
      r2 == SetStateInternal(InvokeListeners(r1), "Exited")
  IN [r2 EXCEPT !.thread_ = FALSE, !.last_procstate = "none"]

\* UThread::InitThread up to the wait of StateWait(kIdle)
InitThread(r) ==
  [r EXCEPT !.state_ = "Init", !.requested_state_ = "Idle", !.thread_ = TRUE,
            !.idle_applied = FALSE]

-----------------------------------------------------------------------------
\* UThread::Exit

\* the second half of Exit: "if (Blocking::kOn == block && SUCCESS != StateWait(kExited))"
Exit_wait(r, t, u, block) ==
  IF block = "kOn" THEN StateWaitFor_call(r, t, u, "Exited") ELSE Ret(r, "SUCCESS")

\* RequestState(kExiting, block) has returned res inside Exit
Exit_after_rs(w, t, u, block) ==
  IF w.res # "SUCCESS" /\ w.res # "RESOURCE_UNAVAILABLE"
    THEN w
    ELSE Exit_wait(w.r, t, u, block)

\* the whole nested call RequestState(kExiting, block), mutex already held
Exit_rs(r, t, u, block) ==
  IF RequestState_precheck(r, "Exiting") # "none"
    THEN Ret(r, RequestState_precheck(r, "Exiting"))
    ELSE RequestState_locked(r, t, u, "Exiting", block)

\* from LockState() to the first wait or return; at = "rs" marks a wait
\* inside the nested RequestState, anything else a wait of StateWait(kExited)
Exit_locked(r, t, u, block) ==
  IF r.is_joined_with_thread_ THEN Ret(r, "SUCCESS")
  ELSE IF r.state_ = "Exited" THEN Ret(r, "SUCCESS")
  ELSE IF r.state_ # "Exiting"
    THEN LET w == Exit_rs(r, t, u, block) IN
         IF w.k = "wait" THEN [w EXCEPT !.at = "rs"]
         ELSE Exit_after_rs(w, t, u, block)
  ELSE Exit_wait(r, t, u, block)

\* the wait inside the nested RequestState has returned
Exit_rs_wake(r, t, u, block, timedout) ==
  LET w == RequestState_wake(r, t, u, "Exiting", timedout) IN
  IF w.k = "wait" THEN [w EXCEPT !.at = "rs"]
  ELSE Exit_after_rs(w, t, u, block)

-----------------------------------------------------------------------------
\* The state machine.  There is one UThread object in this model, so a
\* thread's record does not name the object it calls.

LockFree(r) == r.state_ready_mutex_ = NoThread

\* t was signalled or timed out: it is on no condition's list any more
Signalled(r, t) == \A c \in Conds : t \notin r.waiting[c]

\* the object at the start of a step: no listener invoked yet in this step
Fresh(r) == [r EXCEPT !.listener_calls = NoListenerCall]

\* A critical section of call c by thread t ends as w: the thread waits at
\* waitpc, or the call returns w.res.
Finish(t, u, c, w, waitpc) ==
  /\ ut' = [ut EXCEPT ![u] = w.r]
  /\ IF w.k = "ret"
       THEN /\ th' = [th EXCEPT ![t] = AfterCall(t, w.res)]
            /\ ev' = Returned(t, th[t].pc, c, w.res)
       ELSE /\ th' = [th EXCEPT ![t] = [c EXCEPT !.pc = waitpc, !.timedout = FALSE]]
            /\ ev' = NoEvent

\* A step of call c that touches no field of the object: the unlocked checks
\* at the top of a method.  res = "none": they pass and the thread goes on to nextpc.
Precheck(t, u, c, res, nextpc) ==
  /\ ut' = [ut EXCEPT ![u] = Fresh(@)]
  /\ IF res = "none"
       THEN /\ th' = [th EXCEPT ![t] = [c EXCEPT !.pc = nextpc]]
            /\ ev' = NoEvent
       ELSE /\ th' = [th EXCEPT ![t] = AfterCall(t, res)]
            /\ ev' = Returned(t, th[t].pc, c, res)

NewCall(op, newstate, block) ==
  [NoCall EXCEPT !.op = op, !.newstate = newstate, !.block = block]

\* ProcState ends as w: the thread waits at w.at, or ProcState returns w.res,
\* into SetSelfExiting (which then returns SUCCESS) or into the thread
\* function, which loops on kContinue and returns on kExit.
\* thr is th, or th with the step's changes to the other threads' records.
FinishProcStateIn(thr, u, w) ==
  LET t == MT(u) IN
  /\ ut' = [ut EXCEPT ![u] = IF w.k = "wait" THEN w.r
                                ELSE [w.r EXCEPT !.rsm_resumed = Raised(@),
                                                 !.last_procstate =
                                                   ProcStateReturned(@, w.res)]]
  /\ IF w.k = "wait"
       THEN /\ th' = [thr EXCEPT ![t] = [@ EXCEPT !.pc = w.at, !.procres = w.res,
                                           !.timedout = FALSE]]
            /\ ev' = NoEvent
       ELSE IF th[t].op = "SetSelfExiting"
         THEN /\ th' = [thr EXCEPT ![t] = AtHome(t)]
              /\ ev' = Returned(t, th[t].pc, th[t], "SUCCESS")
         ELSE /\ th' = [thr EXCEPT ![t] =
                          [NoCall EXCEPT !.pc = IF w.res = "kExit" THEN "exit" ELSE "body"]]
              /\ ev' = NoEvent

FinishProcState(u, w) == FinishProcStateIn(th, u, w)

\* the cycle-wait configurations the object is constructed with
CycleWaitConfigs == CycleWaitTypes \X Periods

Init ==
  /\ \E cfg \in CycleWaitConfigs :
       ut = [u \in UThreads |-> InitUThread(cfg[1], cfg[2])]
  /\ th = [t \in Threads |-> IF t \in Callers THEN NoCall
                                             ELSE [NoCall EXCEPT !.pc = "none"]]
  /\ ev = NoEvent
  /\ calls = 0

MakeCall == calls < MaxCalls /\ calls' = calls + 1

\* ---- Start(block)
Start(t, u, block) ==
  /\ th[t].pc = "idle"
  /\ MakeCall
  /\ LockFree(ut[u])
  /\ IF thread_exists(ut[u])
       THEN Finish(t, u, NewCall("Start", "Invalid", block),
                   Ret(Fresh(ut[u]), "STATE_ALREADY_EFFECTIVE"), "start_wait")
       ELSE LET r1 == InitThread(Fresh(ut[u]))
                w  == IF block = "kOn" THEN StateWaitFor_call(r1, t, u, "Idle")
                                       ELSE Ret(r1, "SUCCESS")
            IN /\ ut' = [ut EXCEPT ![u] = w.r]
               /\ IF w.k = "ret"
                    THEN /\ th' = [th EXCEPT ![MT(u)] = [@ EXCEPT !.pc = "begin"]]
                         /\ ev' = Returned(t, th[t].pc,
                                            NewCall("Start", "Invalid", block), "SUCCESS")
                    ELSE /\ th' = [th EXCEPT
                              ![t] = [NewCall("Start", "Invalid", block)
                                        EXCEPT !.pc = "start_wait"],
                              ![MT(u)] = [@ EXCEPT !.pc = "begin"]]
                         /\ ev' = NoEvent

\* StateWait(kIdle) inside InitThread returns; Start drops its result
StartWake(t, u) ==
  /\ th[t].pc = "start_wait"
  /\ Signalled(ut[u], t) /\ LockFree(ut[u])
  /\ LET w == StateWaitFor_wake(Fresh(ut[u]), t, "Idle", th[t].timedout) IN
       Finish(t, u, th[t], IF w.k = "ret" THEN Ret(w.r, "SUCCESS") ELSE w, "start_wait")
  /\ UNCHANGED calls

\* Exiting is pending or effective
ExitingKnown(r) == r.requested_state_ = "Exiting" \/ r.state_ = "Exiting"

\* the non-blocking call c asks for the state that is already requested and
\* not yet applied
RepeatsPending(r, c) ==
  /\ c.block = "kOff"
  /\ r.requested_state_ = c.newstate /\ r.state_ # c.newstate

\* ---- RequestState(newstate, block); Run and Idle are RequestState(kGo / kIdle, block)
CallRequestState(t, u, newstate, block) ==
  /\ th[t].pc = Home(t)
  /\ MakeCall
  /\ Precheck(t, u, NewCall("RequestState", newstate, block),
              RequestState_precheck(ut[u], newstate), "rs_lock")

RequestStateLock(t, u) ==
  /\ th[t].pc = "rs_lock" /\ th[t].op = "RequestState"
  /\ LockFree(ut[u])
  /\ LET w == RequestState_locked(Fresh(ut[u]), t, u, th[t].newstate, th[t].block)
     IN Finish(t, u, [th[t] EXCEPT !.exiting = ExitingKnown(ut[u]),
                                   !.found = IF w.k = "ret"
                                               THEN ut[u].requested_state_
                                               ELSE "Invalid"],
               w, "rs_wait")
  /\ UNCHANGED calls

RequestStateWake(t, u) ==
  /\ th[t].pc = "rs_wait"
  /\ Signalled(ut[u], t) /\ LockFree(ut[u])
  /\ Finish(t, u, th[t],
            RequestState_wake(Fresh(ut[u]), t, u, th[t].newstate, th[t].timedout),
            "rs_wait")
  /\ UNCHANGED calls

\* ---- Exit(block)
ExitWaitPc(w) == IF w.at = "rs" THEN "exit_rs_wait" ELSE "exit_wait"

CallExit(t, u, block) ==
  /\ th[t].pc = "idle"
  /\ MakeCall
  /\ LockFree(ut[u])
  /\ LET w == Exit_locked(Fresh(ut[u]), t, u, block) IN
       Finish(t, u, NewCall("Exit", "Exiting", block), w, ExitWaitPc(w))

\* ~UThread after its call Exit(kOn) has returned: "if (NOT_INIT != res)
\* JoinInternal();", then the destructor returns.  A call c of Exit itself
\* ends as Exit ends.
Destructor_after_exit(c, w) ==
  IF c.op = "~UThread" /\ w.k = "ret"
    THEN Ret(IF w.res # "NOT_INIT" THEN JoinInternal(w.r) ELSE w.r, "returned")
    ELSE w

ExitRsWake(t, u) ==
  /\ th[t].pc = "exit_rs_wait"
  /\ Signalled(ut[u], t) /\ LockFree(ut[u])
  /\ LET w == Destructor_after_exit(th[t],
                Exit_rs_wake(Fresh(ut[u]), t, u, th[t].block, th[t].timedout))
     IN Finish(t, u, th[t], w, ExitWaitPc(w))
  /\ UNCHANGED calls

ExitWaitWake(t, u) ==
  /\ th[t].pc = "exit_wait"
  /\ Signalled(ut[u], t) /\ LockFree(ut[u])
  /\ Finish(t, u, th[t],
            Destructor_after_exit(th[t],
              StateWaitFor_wake(Fresh(ut[u]), t, "Exited", th[t].timedout)),
            "exit_wait")
  /\ UNCHANGED calls

\* ---- ~UThread(): the last call made on the object
CallDestructor(t, u) ==
  /\ th[t].pc = "idle"
  /\ calls < MaxCalls /\ calls' = MaxCalls
  /\ LockFree(ut[u])
  /\ LET r == Fresh(ut[u])
         c == NewCall("~UThread", "Exiting", "kOn")
         w == IF r.state_ # "Invalid" /\ r.state_ # "Exited" /\ thread_exists(r)
                THEN Destructor_after_exit(c, Exit_locked(r, t, u, "kOn"))
                ELSE Ret(r, "returned")
     IN Finish(t, u, c, w, ExitWaitPc(w))

\* ---- Pause(), Unpause()
\* the call of Pause() up to LockState()
Pause_begin(t, u) ==
  /\ th[t].pc = "idle"
  /\ Precheck(t, u, NewCall("Pause", "Invalid", "kOff"),
              IF thread_exists(ut[u]) THEN "none" ELSE "NOT_INIT", "pause_lock")

CallPause(t, u) == MakeCall /\ Pause_begin(t, u)

PauseLock(t, u) ==
  /\ th[t].pc = "pause_lock"
  /\ LockFree(ut[u])
  /\ Finish(t, u, th[t], Pause_locked(Fresh(ut[u]), t), "pause_wait")
  /\ UNCHANGED calls

\* the wait on paused_cond_ returns; Pause returns SUCCESS
PauseWake(t, u) ==
  /\ th[t].pc = "pause_wait"
  /\ Signalled(ut[u], t) /\ LockFree(ut[u])
  /\ Finish(t, u, th[t], Ret(Fresh(ut[u]), "SUCCESS"), "pause_wait")
  /\ UNCHANGED calls

\* the call of Unpause() up to LockState()
Unpause_begin(t, u) ==
  /\ th[t].pc = "idle"
  /\ Precheck(t, u, NewCall("Unpause", "Invalid", "kOff"),
              IF thread_exists(ut[u]) THEN "none" ELSE "NOT_INIT", "unpause_lock")

CallUnpause(t, u) == MakeCall /\ Unpause_begin(t, u)

UnpauseLock(t, u) ==
  /\ th[t].pc = "unpause_lock"
  /\ LockFree(ut[u])
  /\ Finish(t, u, th[t], Unpause_locked(Fresh(ut[u])), "unpause_lock")
  /\ UNCHANGED calls

\* ---- the managed thread: _mainThreadFunc, the thread function, ProcState

\* a variant in which the new thread makes no entry in the registry
MainBegin_unregistered(u) ==
  /\ th[MT(u)].pc = "begin"
  /\ LockFree(ut[u])
  /\ ut' = [ut EXCEPT ![u] = Fresh(@)]
  /\ th' = [th EXCEPT ![MT(u)] = [@ EXCEPT !.pc = "body"]]
  /\ ev' = NoEvent
  /\ UNCHANGED calls

\* _mainThreadFunc up to the call of the thread function
MainBegin(u) ==
  /\ th[MT(u)].pc = "begin"
  /\ LockFree(ut[u])
  /\ ut' = [ut EXCEPT ![u] = [Fresh(@) EXCEPT !.registered = TRUE]]
  /\ th' = [th EXCEPT ![MT(u)] = [@ EXCEPT !.pc = "body"]]
  /\ ev' = NoEvent
  /\ UNCHANGED calls

\* the thread function calls ProcState (also the call inside SetSelfExiting)
ProcState(u) ==
  /\ th[MT(u)].pc \in {"body", "sse_procstate"}
  /\ LockFree(ut[u])
  /\ \E elapsed \in BOOLEAN :
       FinishProcState(u, ProcState_enter(Fresh(ut[u]), MT(u), elapsed))
  /\ UNCHANGED calls

\* the timed cycle wait expires
CycleTimeout(u) ==
  /\ th[MT(u)].pc = "cyclewait"
  /\ MT(u) \in ut[u].waiting["go_cond_"]
  /\ ut' = [ut EXCEPT ![u] = [Fresh(@) EXCEPT !.waiting["go_cond_"] = @ \ {MT(u)}]]
  /\ th' = [th EXCEPT ![MT(u)] = [@ EXCEPT !.timedout = TRUE]]
  /\ ev' = NoEvent
  /\ UNCHANGED calls

CycleWake(u) ==
  /\ th[MT(u)].pc = "cyclewait"
  /\ Signalled(ut[u], MT(u)) /\ LockFree(ut[u])
  /\ FinishProcState(u, ProcState_cyclewake(Fresh(ut[u]), MT(u), th[MT(u)].timedout))
  /\ UNCHANGED calls

\* StateCondWait(go_cond_) of the Idle case returns: the loop goes round
IdleWake(u) ==
  /\ th[MT(u)].pc = "idlepark"
  /\ Signalled(ut[u], MT(u)) /\ LockFree(ut[u])
  /\ FinishProcState(u, ProcState_loop(Fresh(ut[u]), MT(u)))
  /\ UNCHANGED calls

\* StateCondWait(unpause_cond_) of ConsiderPause_locked returns
UnpauseWake(u) ==
  /\ th[MT(u)].pc = "paused"
  /\ Signalled(ut[u], MT(u)) /\ LockFree(ut[u])
  /\ FinishProcState(u, ConsiderPause_wake(Fresh(ut[u]), th[MT(u)].procres))
  /\ UNCHANGED calls

\* the thread function has returned: the rest of _mainThreadFunc
MainExit(u) ==
  /\ th[MT(u)].pc = "exit"
  /\ LockFree(ut[u])
  /\ ut' = [ut EXCEPT ![u] =
              mainThreadFunc_exit(Fresh(@), state_ready_wait_count(th, u))]
  /\ th' = [th EXCEPT ![MT(u)] = [NoCall EXCEPT !.pc = "unregister"]]
  /\ ev' = NoEvent
  /\ UNCHANGED calls

\* _mainThreadFunc returns: ~UThreadRegistration erases the thread's entry
\* of g_uthread_registry, after UnlockState(), and the native thread ends
MainUnregister(u) ==
  /\ th[MT(u)].pc = "unregister"
  /\ ut' = [ut EXCEPT ![u] = [Fresh(@) EXCEPT !.registered = FALSE]]
  /\ th' = [th EXCEPT ![MT(u)] = [NoCall EXCEPT !.pc = "none"]]
  /\ ev' = NoEvent
  /\ UNCHANGED calls

\* SetSelfExiting(), called by the thread function: RequestState(kExiting,
\* kOff), then ProcState()
CallSetSelfExiting(u) ==
  /\ th[MT(u)].pc = "body"
  /\ MakeCall
  /\ Precheck(MT(u), u, NewCall("SetSelfExiting", "Exiting", "kOff"),
              RequestState_precheck(ut[u], "Exiting"), "rs_lock")

SetSelfExitingLock(u) ==
  /\ th[MT(u)].pc = "rs_lock" /\ th[MT(u)].op = "SetSelfExiting"
  /\ LockFree(ut[u])
  /\ LET w == RequestState_locked(Fresh(ut[u]), MT(u), u, "Exiting", "kOff") IN
       IF w.res = "SUCCESS"
         THEN /\ ut' = [ut EXCEPT ![u] = w.r]
              /\ th' = [th EXCEPT ![MT(u)] = [@ EXCEPT !.pc = "sse_procstate"]]
              /\ ev' = NoEvent
         ELSE Finish(MT(u), u, th[MT(u)], w, "rs_wait")
  /\ UNCHANGED calls

-----------------------------------------------------------------------------
\* The targets passed to RequestState
Targets == {"Init", "Go", "Idle", "Exiting", "Exited"}

CallerStep(t, u) ==
  \/ \E b \in Blockings : Start(t, u, b)
  \/ StartWake(t, u)
  \/ \E b \in Blockings : CallExit(t, u, b)
  \/ ExitRsWake(t, u)
  \/ ExitWaitWake(t, u)
  \/ CallPause(t, u)
  \/ PauseLock(t, u)
  \/ PauseWake(t, u)
  \/ CallUnpause(t, u)
  \/ UnpauseLock(t, u)

\* RequestState is called by the callers and by the thread function
AnyThreadStep(t, u) ==
  \/ \E s \in Targets, b \in Blockings : CallRequestState(t, u, s, b)
  \/ RequestStateLock(t, u)
  \/ RequestStateWake(t, u)

ManagedStep(u) ==
  \/ MainBegin(u)
  \/ ProcState(u)
  \/ CycleTimeout(u)
  \/ CycleWake(u)
  \/ IdleWake(u)
  \/ UnpauseWake(u)
  \/ MainExit(u)
  \/ MainUnregister(u)
  \/ CallSetSelfExiting(u)
  \/ SetSelfExitingLock(u)

Next ==
  \E u \in UThreads :
    \/ \E t \in Callers : CallerStep(t, u)
    \/ \E t \in Threads : AnyThreadStep(t, u)
    \/ ManagedStep(u)

Spec == Init /\ [][Next]_vars

\* The same, with the destruction of the object
NextDestructor ==
  \/ Next
  \/ \E u \in UThreads : \E t \in Callers : CallDestructor(t, u)

SpecDestructor == Init /\ [][NextDestructor]_vars

-----------------------------------------------------------------------------
\* UThread::RequestStateMultiple(in_threads, newstate, failures_out).
\*
\* The coordinator starts the objects, one after the other, and calls
\* RequestStateMultiple once, with the list of all the objects.  The locals
\* of the call live in the coordinator's record: go_state_pending_count,
\* go_state_ready_mutex (its owner), the waiters of go_state_ready_cond,
\* threads, the part of failures_out written by the call itself, the index
\* of the next thread to prepare, and, as history, the threads that have
\* decremented the count.  The other threads make non-blocking RequestState
\* calls on the objects, before and during the call.

\* the list passed to RequestStateMultiple
in_threads == [i \in 1..NumParticipants |-> i]

RsmLocals(newstate) ==
  [ pc |-> "rsm_prepare", op |-> "RequestStateMultiple", newstate |-> newstate,
    block |-> "kOn", timedout |-> FALSE, procres |-> "none", exiting |-> FALSE,
    found |-> "Invalid", exit_seen |-> FALSE, res |-> "none",
    next |-> 1,
    threads |-> {},
    failures |-> {},
    go_state_pending_count |-> 0,
    go_state_ready_mutex |-> Coordinator,
    go_waiting |-> {},
    arrived |-> {} ]

\* a call of RequestStateMultiple is in progress: its locals exist
RsmActive == th[Coordinator].op = "RequestStateMultiple"

\* RequestStateMultiple has returned: failures_out as the caller finds it
RsmReturned(newstate, at, failures) ==
  [ t |-> Coordinator, op |-> "RequestStateMultiple", newstate |-> newstate,
    block |-> "kOn", res |-> "SUCCESS", at |-> at, exiting |-> FALSE,
    found |-> "Invalid", exit_seen |-> FALSE, failures |-> failures ]

CoordinatorDone == [NoCall EXCEPT !.pc = "done"]

\* Both objects are constructed with the same cycle wait: none
\* (kIndefinite), or a relative one of a period that is not zero.
InitMultiple ==
  /\ \E type \in {"Indefinite", "Relative"} :
       ut = [u \in Participants |-> InitUThread(type, "pos")]
  /\ th = [t \in MultiThreads |->
             IF t[1] \in {"uthread", "helper"} THEN [NoCall EXCEPT !.pc = "none"]
                                               ELSE NoCall]
  /\ ev = NoEvent
  /\ calls = 0

\* every object has been started
AllStarted == \A u \in Participants : ut[u].state_ # "Invalid"

\* the coordinator starts the objects in the order of the list
CoordinatorStart(u) ==
  /\ ut[u].state_ = "Invalid"
  /\ \A v \in Participants : v < u => ut[v].state_ # "Invalid"
  /\ Start(Coordinator, u, "kOff")

\* a call on object u that is not part of RequestStateMultiple; these calls
\* are made one after the other, before RequestStateMultiple has returned
UnrelatedRequest(u, newstate) ==
  /\ AllStarted
  /\ th[Coordinator].pc # "done"
  /\ \A v \in Participants : th[Other(v)].pc = "idle"
  /\ CallRequestState(Other(u), u, newstate, "kOff")

\* RequestStateMultiple is called.  For kGo the caller locks its
\* go_state_ready_mutex and goes on to prepare the threads.  For any other
\* state `threads` stays empty: no helper is started, nothing is waited for,
\* and the call returns SUCCESS.
CallRequestStateMultiple(newstate) ==
  /\ th[Coordinator].pc = "idle"
  /\ AllStarted
  /\ ut' = [u \in Participants |-> Fresh(ut[u])]
  /\ IF newstate = "Go"
       THEN /\ th' = [th EXCEPT ![Coordinator] = RsmLocals(newstate)]
            /\ ev' = NoEvent
       ELSE /\ th' = [th EXCEPT ![Coordinator] = CoordinatorDone]
            /\ ev' = RsmReturned(newstate, "idle", {})
  /\ UNCHANGED calls

\* RequestStateMultiple_Prepare / the failure branch, under the state mutex
\* of in_threads[next]
RequestStateMultiple_Prepare(r) ==
  [r EXCEPT !.in_progress = TRUE,
            !.rsm_went_go = IF r.state_ = "Go" THEN "yes" ELSE "no"]

\* One pass of the loop over in_threads.  After the last pass the call sets
\* go_state_pending_count, starts a helper thread for each of `threads`, and
\* waits on go_state_ready_cond (which unlocks go_state_ready_mutex) unless
\* the count is zero.  From then on the history rsm_resumed of the prepared
\* objects is kept.
RsmPrepare ==
  LET c == th[Coordinator]
      u == in_threads[c.next]
      r == Fresh(ut[u])
      ok == is_available(r)
      threads == IF ok THEN c.threads \cup {u} ELSE c.threads
      failures == IF ok THEN c.failures ELSE c.failures \cup {u}
      count == Cardinality(threads)
      c1 == [c EXCEPT !.threads = threads, !.failures = failures]
  IN
  /\ c.pc = "rsm_prepare"
  /\ LockFree(ut[u])
  /\ LET ut1 == [ut EXCEPT ![u] = IF ok THEN RequestStateMultiple_Prepare(r) ELSE r]
     IN IF c.next < NumParticipants
          THEN ut' = ut1
          ELSE ut' = [v \in Participants |->
                        IF v \in threads THEN [ut1[v] EXCEPT !.rsm_resumed = "no"]
                                          ELSE ut1[v]]
  /\ IF c.next < NumParticipants
       THEN th' = [th EXCEPT ![Coordinator] = [c1 EXCEPT !.next = c.next + 1]]
       ELSE th' = [t \in MultiThreads |->
                     IF t = Coordinator
                       THEN [c1 EXCEPT !.go_state_pending_count = count,
                                       !.go_state_ready_mutex = NoThread,
                                       !.go_waiting = IF count > 0 THEN {Coordinator}
                                                                   ELSE {},
                                       !.pc = IF count > 0 THEN "rsm_wait"
                                                           ELSE "rsm_join"]
                     ELSE IF t[1] = "helper" /\ t[2] \in threads
                       THEN [NoCall EXCEPT !.pc = "helper_start"]
                     ELSE th[t]]
  /\ ev' = NoEvent
  /\ UNCHANGED calls

\* go_state_ready_cond.wait returns: the mutex is taken again and unlocked
RsmWake ==
  LET c == th[Coordinator] IN
  /\ c.pc = "rsm_wait"
  /\ Coordinator \notin c.go_waiting
  /\ c.go_state_ready_mutex = NoThread
  /\ th' = [th EXCEPT ![Coordinator] = [c EXCEPT !.pc = "rsm_join"]]
  /\ ut' = [u \in Participants |-> Fresh(ut[u])]
  /\ ev' = NoEvent
  /\ UNCHANGED calls

\* the results the helper threads have pushed to failures_out
HelperFailures(thr, threads) ==
  {u \in threads : thr[Helper(u)].res # "SUCCESS"}

\* every helper has been joined: RequestStateMultiple returns, and its
\* locals are destroyed
RsmJoin ==
  LET c == th[Coordinator] IN
  /\ c.pc = "rsm_join"
  /\ \A u \in c.threads : th[Helper(u)].pc = "joinable"
  /\ th' = [t \in MultiThreads |->
              IF t = Coordinator THEN CoordinatorDone
              ELSE IF t[1] = "helper" THEN [NoCall EXCEPT !.pc = "none"]
              ELSE th[t]]
  /\ ut' = [u \in Participants |-> Fresh(ut[u])]
  /\ ev' = RsmReturned(c.newstate, "rsm_join",
                       c.failures \cup HelperFailures(th, c.threads))
  /\ UNCHANGED calls

\* A variant of the helper that does not wait for the state.
HelperBlocking_off == "kOff"

\* RequestStateMultipleHelper::_threadFunc for a state other than kExited:
\* RequestState(newstate, Blocking::kOn)
HelperBlocking == "kOn"

HelperRun(u) ==
  /\ th[Helper(u)].pc = "helper_start"
  /\ Precheck(Helper(u), u,
              NewCall("RequestState", th[Coordinator].newstate, HelperBlocking),
              RequestState_precheck(ut[u], th[Coordinator].newstate), "rs_lock")
  /\ UNCHANGED calls

\* The barrier in ProcState.  The managed thread, its state mutex held,
\* locks go_state_ready_mutex and decrements the count.  If the count is not
\* zero it waits on go_state_ready_cond; if it is, it wakes every waiter,
\* unlocks, clears set_state_multiple_info_ and ProcState goes on to its end.
BarrierChanged(pc) == pc \in {"barrier_changed", "barrier_wait_changed"}

BarrierLeave(thr, u) ==
  LET t == MT(u)
      r == [Fresh(ut[u]) EXCEPT !.in_progress = FALSE,
                                !.state_ready_mutex_ = NoThread]
  IN FinishProcStateIn(thr, u,
       ProcState_finish(r, t, BarrierChanged(th[t].pc), th[t].procres))

BarrierArrive(u) ==
  LET t == MT(u)
      c == th[Coordinator]
      c1 == [c EXCEPT !.go_state_pending_count = @ - 1,
                      !.arrived = @ \cup {u}]
  IN
  /\ th[t].pc \in {"barrier", "barrier_changed"}
  /\ RsmActive /\ c.go_state_ready_mutex = NoThread
  /\ IF c1.go_state_pending_count # 0
       THEN /\ th' = [th EXCEPT
                 ![Coordinator] = [c1 EXCEPT !.go_waiting = @ \cup {t}],
                 ![t] = [@ EXCEPT !.pc = IF BarrierChanged(th[t].pc)
                                           THEN "barrier_wait_changed"
                                           ELSE "barrier_wait"]]
            /\ ut' = [ut EXCEPT ![u] = Fresh(@)]
            /\ ev' = NoEvent
       ELSE BarrierLeave([th EXCEPT ![Coordinator] = [c1 EXCEPT !.go_waiting = {}]], u)
  /\ UNCHANGED calls

\* the wait on go_state_ready_cond returns while the caller's locals exist
BarrierWake(u) ==
  LET t == MT(u) IN
  /\ th[t].pc \in {"barrier_wait", "barrier_wait_changed"}
  /\ RsmActive
  /\ t \notin th[Coordinator].go_waiting
  /\ th[Coordinator].go_state_ready_mutex = NoThread
  /\ BarrierLeave(th, u)
  /\ UNCHANGED calls

\* RequestStateMultiple has returned before the woken thread has locked
\* go_state_ready_mutex again: the mutex and the condition variable, locals
\* of the call, are gone.  The behaviour is undefined; the thread goes on as
\* if they were there, or never comes back from the wait.
BarrierDangling(u, resumes) ==
  LET t == MT(u) IN
  /\ th[t].pc \in {"barrier_wait", "barrier_wait_changed"}
  /\ ~RsmActive
  /\ IF resumes
       THEN BarrierLeave(th, u)
       ELSE /\ th' = [th EXCEPT ![t] = [@ EXCEPT !.pc = "barrier_lost"]]
            /\ ut' = [ut EXCEPT ![u] = Fresh(@)]
            /\ ev' = NoEvent
  /\ UNCHANGED calls

\* the requests made by the threads other than the coordinator's
OtherTargets == {"Go", "Idle", "Exiting"}

\* the managed thread up to the return of its thread function
ManagedRunning(u) ==
  \/ MainBegin(u)
  \/ ProcState(u)
  \/ CycleTimeout(u)
  \/ CycleWake(u)
  \/ IdleWake(u)
  \/ BarrierArrive(u)
  \/ BarrierWake(u)
  \/ \E resumes \in BOOLEAN : BarrierDangling(u, resumes)

ManagedStepMultiple(u) ==
  \/ ManagedRunning(u)
  \/ MainExit(u)
  \/ MainUnregister(u)

HelperStep(u) ==
  \/ HelperRun(u)
  \/ RequestStateLock(Helper(u), u)
  \/ RequestStateWake(Helper(u), u)

CoordinatorProgress ==
  \/ RsmPrepare
  \/ RsmWake
  \/ RsmJoin

NextMultiple ==
  \/ \E u \in Participants : CoordinatorStart(u)
  \/ \E s \in {"Go", "Idle", "Exiting"} : CallRequestStateMultiple(s)
  \/ CoordinatorProgress
  \/ \E u \in Participants :
       \/ HelperStep(u)
       \/ \E s \in OtherTargets : UnrelatedRequest(u, s)
       \/ RequestStateLock(Other(u), u)
       \/ ManagedStepMultiple(u)

SpecMultiple == InitMultiple /\ [][NextMultiple]_vars

\* RequestStateMultiple(kGo) on threads that nobody asks to exit: the other
\* requests are Go and Idle requests.
NextMultipleGo ==
  \/ \E u \in Participants : CoordinatorStart(u)
  \/ CallRequestStateMultiple("Go")
  \/ CoordinatorProgress
  \/ \E u \in Participants :
       \/ HelperStep(u)
       \/ \E s \in {"Go", "Idle"} : UnrelatedRequest(u, s)
       \/ RequestStateLock(Other(u), u)
       \/ ManagedRunning(u)

SpecMultipleGo == InitMultiple /\ [][NextMultipleGo]_vars

\* Fair scheduling, as in FairSpec: every thread that can take a step of the
\* call it is in, or of the thread function's loop, eventually takes it.
FairSpecMultipleGo ==
  /\ SpecMultipleGo
  /\ WF_vars(CoordinatorProgress)
  /\ \A u \in Participants :
       /\ WF_vars(ManagedRunning(u))
       /\ WF_vars(HelperStep(u))
       /\ WF_vars(RequestStateLock(Other(u), u))

-----------------------------------------------------------------------------
\* The managed thread of the object of Spec
M1 == MT(U1)

\* the edges of the state diagram
DiagramEdges ==
  { <<"Invalid", "Init">>, <<"Init", "Idle">>, <<"Idle", "Go">>, <<"Go", "Idle">>,
    <<"Go", "Exiting">>, <<"Idle", "Exiting">>, <<"Exiting", "Exited">> }

\* C1: every change of a managed thread's state follows an edge of the state
\* diagram.  (What happens to a thread that has Exited is left to C2: the
\* changes looked at here start in a state other than Exited.)
C1_StateFollowsDiagram ==
  [][\A u \in UThreads :
       (ut[u].state_ # "Exited" /\ ut'[u].state_ # ut[u].state_)
         => <<ut[u].state_, ut'[u].state_>> \in DiagramEdges]_vars

\* C2: once the state is Exiting or Exited it never again becomes Init, Idle
\* or Go, and once Exited it stays Exited.
C2_TerminalMonotonic ==
  [][\A u \in UThreads :
       /\ ut[u].state_ \in {"Exiting", "Exited"}
            => ut'[u].state_ \notin {"Init", "Idle", "Go"}
       /\ ut[u].state_ = "Exited" => ut'[u].state_ = "Exited"]_vars

\* C3: once requested_state_ is Exiting it stays Exiting until the managed
\* thread applies it: a step either leaves the request pending or is the
\* managed thread's transition to Exiting.
C3_ExitingNotCancelled ==
  [][\A u \in UThreads :
       ut[u].requested_state_ = "Exiting"
         => \/ ut'[u].requested_state_ = "Exiting"
            \/ ut[u].state_ # "Exiting" /\ ut'[u].state_ = "Exiting"]_vars

\* C4: when a blocking RequestState(X) of a thread other than the managed
\* thread returns success, the state is X (or Exited when X is Exiting) at the
\* moment the call returns.
C4_BlockingSuccessMeansState ==
  ( /\ ev.op = "RequestState" /\ ev.block = "kOn" /\ ev.res = "SUCCESS"
    /\ ev.t \in Callers /\ ev.newstate \in {"Go", "Idle", "Exiting"} )
  => \/ ut[U1].state_ = ev.newstate
     \/ ev.newstate = "Exiting" /\ ut[U1].state_ = "Exited"

\* a blocking RequestState(kGo) that waited returns success
C4_Witness ==
  /\ ev.op = "RequestState" /\ ev.block = "kOn" /\ ev.res = "SUCCESS"
  /\ ev.t \in Callers /\ ev.newstate = "Go" /\ ev.at = "rs_wait"
  /\ ut[U1].state_ = "Go"

\* C5: once Exiting is pending or effective, RequestState of a thread other
\* than the managed thread fails with ShuttingDown for the targets Go and
\* Idle, and returns success for the target Exiting.
C5_ExitingRefusesOthers ==
  ( /\ ev.op = "RequestState" /\ ev.exiting /\ ev.t \in Callers
    /\ ev.newstate \in {"Go", "Idle", "Exiting"} )
  => ev.res = IF ev.newstate = "Exiting" THEN "SUCCESS" ELSE "SHUTTING_DOWN"

\* C6: once the thread has Exited, a RequestState call with target Go or Idle
\* fails with ResourceUnavailable.
C6_ExitedMeansUnavailable ==
  ( /\ ev.op = "RequestState" /\ ev.newstate \in {"Go", "Idle"}
    /\ ut[U1].state_ = "Exited" )
  => ev.res = "RESOURCE_UNAVAILABLE"

\* thread t begins a call of RequestState with a target in targets
BeginsRequestState(t, targets) ==
  /\ calls' # calls
  /\ th[t].op = "none"
  /\ \/ th'[t].op = "RequestState" /\ th'[t].newstate \in targets
     \/ ev'.t = t /\ ev'.op = "RequestState" /\ ev'.newstate \in targets

\* thread t runs the critical section of RequestState that starts at LockState()
LocksRequestState(t) ==
  th[t].pc = "rs_lock" /\ th[t].op = "RequestState" /\ th'[t].pc # "rs_lock"

\* C7: RequestState on a started thread with target Init or Exited returns
\* InvalidArgument at once, leaves state_, requested_state_ and the pause
\* flags as they were, and wakes nobody.
C7_InitExitedRejected ==
  [][\A u \in UThreads : \A t \in Threads :
       (BeginsRequestState(t, {"Init", "Exited"}) /\ thread_exists(ut[u]))
         => /\ ev'.t = t /\ ev'.res = "INVALID_ARGUMENT"
            /\ ut'[u].state_ = ut[u].state_
            /\ ut'[u].requested_state_ = ut[u].requested_state_
            /\ ut'[u].is_paused_ = ut[u].is_paused_
            /\ ut'[u].is_pause_pending_ = ut[u].is_pause_pending_
            /\ ut'[u].waiting = ut[u].waiting]_vars

\* RequestState(kExited) was rejected while the thread was in state Go with
\* a request pending
C7_Witness ==
  /\ ev.op = "RequestState" /\ ev.newstate = "Exited"
  /\ ev.res = "INVALID_ARGUMENT"
  /\ ut[U1].state_ = "Go" /\ ut[U1].requested_state_ = "Idle"

\* C8: RequestState(X) called while the state is X and no Exiting is pending
\* returns success, sets requested_state_ to Invalid, leaves state_ and
\* prev_state_ as they were and invokes no state-change listener.
C8_SameStateRequest ==
  [][\A u \in UThreads : \A t \in Threads :
       ( /\ LocksRequestState(t)
         /\ th[t].newstate = ut[u].state_
         /\ ut[u].requested_state_ # "Exiting" )
         => /\ ev'.t = t /\ ev'.res = "SUCCESS"
            /\ ut'[u].requested_state_ = "Invalid"
            /\ ut'[u].state_ = ut[u].state_
            /\ ut'[u].prev_state_ = ut[u].prev_state_
            /\ ~ut'[u].listener_calls.called]_vars

\* RequestState(kGo) returned success from its first critical section while
\* the state was Go
C8_Witness ==
  /\ ev.op = "RequestState" /\ ev.newstate = "Go" /\ ev.at = "rs_lock"
  /\ ev.res = "SUCCESS"
  /\ ut[U1].state_ = "Go" /\ ut[U1].requested_state_ = "Invalid"

\* what a blocking RequestState(newstate) of the managed thread returns from
\* its critical section, given the object r at LockState()
SelfBlockingResult(r, newstate) ==
  IF r.state_ = "Exiting"
    THEN (IF newstate = "Exiting" THEN "SUCCESS" ELSE "SHUTTING_DOWN")
  ELSE IF r.requested_state_ = "Exiting" /\ newstate # "Exiting"
    THEN "SHUTTING_DOWN"
  ELSE IF newstate = r.state_ THEN "SUCCESS"
  ELSE "DEADLOCK_AVERTED"

\* C9 (as stated): a blocking RequestState call of the managed thread always
\* fails with DeadlockAverted (stated here for the targets RequestState accepts).
C9_SelfBlockingAlwaysDeadlockAverted ==
  ( /\ ev.t = M1 /\ ev.op = "RequestState" /\ ev.block = "kOn"
    /\ ev.newstate \in {"Go", "Idle", "Exiting"} )
    => ev.res = "DEADLOCK_AVERTED"

\* C9 (amended): a blocking RequestState call of the managed thread never
\* blocks.  With target Init or Exited it returns InvalidArgument at once;
\* otherwise it returns from its first critical section: ShuttingDown or
\* success when Exiting is effective or pending, as for a non-blocking call,
\* success when the target is the current state, DeadlockAverted otherwise.
C9_SelfBlockingNeverBlocks ==
  [][\A u \in UThreads :
       LET t == MT(u) IN
       /\ (BeginsRequestState(t, Targets) /\ th'[t].block = "kOn")
            => th'[t].newstate \in {"Go", "Idle", "Exiting"}
       /\ (BeginsRequestState(t, Targets) /\ ev'.t = t /\ ev'.block = "kOn")
            => ev'.newstate \in {"Init", "Exited"} /\ ev'.res = "INVALID_ARGUMENT"
       /\ (LocksRequestState(t) /\ th[t].block = "kOn")
            => /\ ev'.t = t
               /\ ev'.res = SelfBlockingResult(ut[u], th[t].newstate)
               /\ th'[t].pc = "body"]_vars

\* the managed thread's blocking RequestState(kIdle) failed with
\* DeadlockAverted while its state was Go
C9_Witness ==
  /\ ev.t = M1 /\ ev.op = "RequestState" /\ ev.block = "kOn"
  /\ ev.newstate = "Idle" /\ ev.res = "DEADLOCK_AVERTED"
  /\ ut[U1].state_ = "Go"

-----------------------------------------------------------------------------
\* Fair scheduling: a thread that can take a step of the call it is in, or of
\* the thread function's loop, eventually takes it.  Nothing obliges a thread
\* to begin a new call.

CallerProgress(t, u) ==
  \/ StartWake(t, u)
  \/ RequestStateLock(t, u)
  \/ RequestStateWake(t, u)
  \/ ExitRsWake(t, u)
  \/ ExitWaitWake(t, u)
  \/ PauseLock(t, u)
  \/ PauseWake(t, u)
  \/ UnpauseLock(t, u)

ManagedProgress(u) ==
  \/ MainBegin(u)
  \/ ProcState(u)
  \/ CycleTimeout(u)
  \/ CycleWake(u)
  \/ IdleWake(u)
  \/ UnpauseWake(u)
  \/ MainExit(u)
  \/ MainUnregister(u)
  \/ SetSelfExitingLock(u)
  \/ RequestStateLock(MT(u), u)

FairSpec ==
  /\ Init /\ [][Next]_vars
  /\ \A u \in UThreads :
       /\ WF_vars(ManagedProgress(u))
       /\ \A t \in Callers : WF_vars(CallerProgress(t, u))

\* C10: when Exiting is requested while the thread is parked in state Idle,
\* the thread eventually reaches Exited.
C10_IdleExitReachesExited ==
  \A u \in UThreads :
    ( /\ th[MT(u)].pc = "idlepark"
      /\ ut[u].state_ = "Idle"
      /\ ut[u].requested_state_ = "Exiting" )
    ~> (ut[u].state_ = "Exited")

\* C11: a blocking Exit of a thread other than the managed thread, called
\* while the managed thread exists (so that the call has to wait), returns
\* success, and the state is Exited when it returns.
C11_BlockingExitSucceeds ==
  ( /\ ev.op = "Exit" /\ ev.block = "kOn" /\ ev.t \in Callers
    /\ ev.at \in {"exit_rs_wait", "exit_wait"} )
  => ev.res = "SUCCESS" /\ ut[U1].state_ = "Exited"

\* C12: when the destructor of a started UThread returns, the managed thread
\* has finished _mainThreadFunc: it takes no further step and its entry of
\* the registry has been removed.  (Stated for a destructor that found the
\* thread alive and waited for it to exit.)
C12_DestructorJoins ==
  (ev.op = "~UThread" /\ ev.at \in {"exit_rs_wait", "exit_wait"})
    => th[M1].pc = "none" /\ ~ut[U1].registered

\* C13: when Start(kOn) returns success, the new thread has applied Idle at
\* least once and its state is not Init.
C13_BlockingStartMeansIdle ==
  (ev.op = "Start" /\ ev.block = "kOn" /\ ev.res = "SUCCESS")
    => ut[U1].idle_applied /\ ut[U1].state_ # "Init"

-----------------------------------------------------------------------------
\* Pause/Unpause cycling.  The callers start the thread and change its state
\* with non-blocking requests, within the budget MaxCalls, and call Pause
\* and Unpause again and again, up to MaxPauseCalls calls in all.

MakePauseCall == calls < MaxPauseCalls /\ calls' = calls + 1

PauseAgain(t, u) == MakePauseCall /\ Pause_begin(t, u)

UnpauseAgain(t, u) == MakePauseCall /\ Unpause_begin(t, u)

NextPause ==
  \E u \in UThreads :
    \/ \E t \in Callers :
         \/ Start(t, u, "kOff")
         \/ \E s \in {"Go", "Idle", "Exiting"} : CallRequestState(t, u, s, "kOff")
         \/ RequestStateLock(t, u)
         \/ PauseAgain(t, u)
         \/ PauseLock(t, u)
         \/ PauseWake(t, u)
         \/ UnpauseAgain(t, u)
         \/ UnpauseLock(t, u)
    \/ MainBegin(u)
    \/ ProcState(u)
    \/ CycleTimeout(u)
    \/ CycleWake(u)
    \/ IdleWake(u)
    \/ UnpauseWake(u)
    \/ MainExit(u)
    \/ MainUnregister(u)

SpecPause == Init /\ [][NextPause]_vars

FairSpecPause ==
  /\ SpecPause
  /\ \A u \in UThreads :
       /\ WF_vars(ManagedProgress(u))
       /\ \A t \in Callers : WF_vars(CallerProgress(t, u))

\* C19: Pause() called while the thread is in state Go returns success only
\* after the thread has parked in ConsiderPause_locked.  A call that returns
\* from its first critical section has not waited, and the thread was not
\* parked when the call took the state mutex; so such a call, returning
\* success while the state is Go, must leave the thread parked.
C19_PauseBlocksUntilParked ==
  ( /\ ev.op = "Pause" /\ ev.res = "SUCCESS" /\ ev.t \in Callers
    /\ ev.at = "pause_lock" /\ ut[U1].state_ = "Go" )
  => ut[U1].is_paused_

\* C20: Unpause() on a parked thread releases it.  When Unpause() returns
\* success and the thread is parked (is_paused_: the call has signalled
\* unpause_cond_), the thread leaves its park and is_paused_ becomes false.
C20_UnpauseReleases ==
  (ev.op = "Unpause" /\ ev.res = "SUCCESS" /\ ut[U1].is_paused_)
    ~> ~ut[U1].is_paused_

\* Unpause() that finds the thread parked returns success and takes the
\* thread off unpause_cond_, whatever the other flags are
UnpauseSignals ==
  [][\A t \in Callers :
       ( /\ th[t].pc = "unpause_lock" /\ th'[t].pc # "unpause_lock"
         /\ ut[U1].is_paused_ )
       => /\ ev'.t = t /\ ev'.res = "SUCCESS"
          /\ M1 \notin ut'[U1].waiting["unpause_cond_"]]_vars

\* the second Unpause() of a run has signalled the thread parked by the
\* second Pause()
C20_Witness ==
  /\ ev.op = "Unpause" /\ ev.res = "SUCCESS" /\ ut[U1].is_paused_
  /\ th[M1].pc = "paused" /\ calls = MaxPauseCalls

-----------------------------------------------------------------------------
\* RequestStateMultiple(in_threads, newstate) has returned
RsmReturns(newstate) ==
  ev.op = "RequestStateMultiple" /\ ev.newstate = newstate

\* object u has been in state Go since the call prepared it
WentGo(u) == ut[u].rsm_went_go = "yes"

\* C14: when RequestStateMultiple(threads, kGo) returns, every thread of the
\* list has been in state Go since the call began (it was in Go when the
\* call prepared it, or has applied Go since) or is in failures_out.
C14_MultipleGoReturnsAfterAll ==
  RsmReturns("Go") => \A u \in Participants : WentGo(u) \/ u \in ev.failures

\* the call has returned with no failure, after both threads, idle when the
\* call began, have applied Go
C14_Witness ==
  /\ RsmReturns("Go") /\ ev.failures = {}
  /\ \A u \in Participants :
       WentGo(u) /\ ut[u].state_ = "Go" /\ ut[u].prev_state_ = "Idle"

\* C15: the Go barrier.  While RequestStateMultiple(threads, kGo) waits for
\* its threads, no prepared thread returns from ProcState before every
\* prepared thread has been in Go and has decremented the pending count at
\* the barrier.
C15_GoBarrier ==
  RsmActive =>
    \A u \in th[Coordinator].threads :
      ut[u].rsm_resumed = "yes"
        => /\ th[Coordinator].arrived = th[Coordinator].threads
           /\ \A v \in th[Coordinator].threads : WentGo(v)

\* RequestStateMultiple(kGo) has just been called on started, available
\* threads, each of them Idle or in Go
RsmGoCalledOnIdleOrGo ==
  /\ RsmActive /\ th[Coordinator].newstate = "Go"
  /\ th[Coordinator].pc = "rsm_prepare" /\ th[Coordinator].next = 1
  /\ \A u \in Participants :
       ut[u].state_ \in {"Idle", "Go"} /\ is_available(ut[u])

\* another thread is in, or returns from, a RequestState call with a target
\* other than Idle
UnrelatedNonIdleRequest ==
  \E u \in Participants :
    \/ th[Other(u)].op = "RequestState" /\ th[Other(u)].newstate # "Idle"
    \/ ev.t = Other(u) /\ ev.newstate # "Idle"

\* C16: RequestStateMultiple(threads, kGo), called on started, available
\* threads that are Idle or in Go, eventually returns, provided that the
\* only other requests made on the threads during the call are Idle requests.
C16_MultipleGoReturns ==
  RsmGoCalledOnIdleOrGo
    ~> (th[Coordinator].pc = "done" \/ UnrelatedNonIdleRequest)

\* object u has assumed newstate (a thread asked to exit may have gone on to
\* Exited)
Assumed(u, newstate) ==
  \/ ut[u].state_ = newstate
  \/ newstate = "Exiting" /\ ut[u].state_ = "Exited"

\* C17: when RequestStateMultiple(threads, newstate) returns for a target
\* other than Go (Idle or Exiting), the request has been issued to every
\* thread of the list: each of them has assumed the target or is in
\* failures_out.
C17_MultipleNonGoReachesTarget ==
  \A newstate \in {"Idle", "Exiting"} :
    RsmReturns(newstate)
      => \A u \in Participants : Assumed(u, newstate) \/ u \in ev.failures

\* the threads of the list that have been in Go since the call prepared them
AppliedGo == {u \in Participants : WentGo(u)}

\* the call found object u exiting or exited and did not prepare it
Skipped(u) == ut[u].rsm_went_go = "untracked"

\* C18: partial failures of RequestStateMultiple(threads, kGo) are collected:
\* when the call returns, the number of threads that applied Go equals
\* threads.size() minus failures_out.size(), a thread that was exiting or had
\* exited being one of the failures.
C18_FailuresCollected ==
  RsmReturns("Go")
    => /\ Cardinality(AppliedGo) = NumParticipants - Cardinality(ev.failures)
       /\ \A u \in Participants : Skipped(u) => u \in ev.failures

-----------------------------------------------------------------------------
\* thread t runs the critical section of Pause() / of Unpause()
LocksPause(t) == th[t].pc = "pause_lock" /\ th'[t].pc # "pause_lock"

LocksUnpause(t) == th[t].pc = "unpause_lock" /\ th'[t].pc # "unpause_lock"

\* C21: the result codes of Pause and Unpause.  Pause on a thread that is
\* paused or has a pause pending returns StateAlreadyEffective; Unpause on a
\* thread that is neither returns StateAlreadyEffective; Unpause that only
\* cancels a pending pause returns success and clears is_pause_pending_; none
\* of these calls changes state_ or requested_state_.
C21_PauseResultCodes ==
  [][\A t \in Callers :
       LET r == ut[U1] IN
       /\ (LocksPause(t) /\ (r.is_paused_ \/ r.is_pause_pending_))
            => ev'.t = t /\ ev'.res = "STATE_ALREADY_EFFECTIVE"
       /\ (LocksUnpause(t) /\ ~r.is_paused_ /\ ~r.is_pause_pending_)
            => ev'.t = t /\ ev'.res = "STATE_ALREADY_EFFECTIVE"
       /\ (LocksUnpause(t) /\ ~r.is_paused_ /\ r.is_pause_pending_)
            => /\ ev'.t = t /\ ev'.res = "SUCCESS"
               /\ ~ut'[U1].is_pause_pending_
       /\ (LocksPause(t) \/ LocksUnpause(t))
            => /\ ut'[U1].state_ = r.state_
               /\ ut'[U1].requested_state_ = r.requested_state_]_vars

\* C22: a registered state-change listener is invoked exactly once for every
\* transition the thread applies into Idle, Go, Exiting or Exited, with the
\* arguments (new_state, prev_state) equal to the states after and before
\* the transition, and it is invoked for nothing else.
C22_ListenerPerTransition ==
  [][\A u \in UThreads :
       LET applied == /\ ut'[u].state_ # ut[u].state_
                      /\ ut'[u].state_ \in {"Idle", "Go", "Exiting", "Exited"}
           call == ut'[u].listener_calls
       IN /\ applied => /\ call.called
                        /\ call.new_state = ut'[u].state_
                        /\ call.prev_state = ut[u].state_
          /\ call.called => applied]_vars

\* object r2 is object r, except that threads waiting on a condition of r may
\* have been woken
SameButWoken(r, r2) ==
  /\ [r2 EXCEPT !.waiting = r.waiting, !.listener_calls = r.listener_calls] = r
  /\ \A c \in Conds : r2.waiting[c] \subseteq r.waiting[c]

\* C23: re-requesting the pending state is idempotent.  A non-blocking
\* RequestState(X) made while X is already requested and not yet applied
\* returns success and leaves the object as the first request left it (the
\* request, the state and the pause flags are the same; at most the managed
\* thread is woken once more), and it invokes no listener: what the thread
\* applies afterwards, and the listener invocations that follow, are those
\* of a single request.
C23_RerequestIdempotent ==
  [][\A u \in UThreads : \A t \in Threads :
       (LocksRequestState(t) /\ RepeatsPending(ut[u], th[t]))
         => /\ ev'.t = t /\ ev'.res = "SUCCESS"
            /\ SameButWoken(ut[u], ut'[u])
            /\ ~ut'[u].listener_calls.called]_vars

\* a caller's second RequestState(kGo, kOff) has returned while the first
\* request was still pending on the idle thread
C23_Witness ==
  /\ ev.op = "RequestState" /\ ev.newstate = "Go" /\ ev.block = "kOff"
  /\ ev.found = "Go" /\ ev.res = "SUCCESS" /\ ev.t \in Callers
  /\ ut[U1].state_ = "Idle" /\ ut[U1].requested_state_ = "Go"
  /\ th[M1].pc = "idlepark"

-----------------------------------------------------------------------------
\* Timed waits: StateWaitFor(desired_state, timeout) called by other threads,
\* and RequestState with a finite timeout.

\* a timeout argument: Duration(0) ("kOff"), a finite positive duration,
\* Duration::Min() ("kOn": the call never times out)
Timeouts == {"kOff", "finite", "kOn"}

\* the checks StateWaitFor makes before LockState(); "none" when they pass
StateWaitFor_precheck(r, t, u, desired_state) ==
  IF ~thread_exists(r) THEN "NOT_INIT"
  ELSE IF desired_state = "Init" THEN "INVALID_ARGUMENT"
  ELSE IF is_current_thread(r, t, u) THEN "THREAD_RESTRICTION"
  ELSE "none"

\* StateWaitFor from LockState() to the first wait or return.  With
\* Duration(0), StateCondWaitFor returns SUCCESS without waiting: the call
\* takes the condition for signalled, so for kIdle and kGo it leaves the loop
\* and returns SUCCESS, and for kExiting and kExited it goes round the loop,
\* the state mutex held, for ever (at = "spin").
StateWaitFor_locked(r, t, desired_state, timeout) ==
  LET w == StateWaitFor_loop(r, t, desired_state) IN
  IF w.k = "wait" /\ timeout = "kOff"
    THEN IF desired_state \in {"Idle", "Go"}
           THEN Ret(r, "SUCCESS")
           ELSE [ r |-> [r EXCEPT !.state_ready_mutex_ = t],
                  k |-> "wait", res |-> "none", at |-> "spin" ]
    ELSE w

CallStateWaitFor(t, u, desired_state, timeout) ==
  /\ th[t].pc = Home(t)
  /\ MakeCall
  /\ Precheck(t, u, NewCall("StateWaitFor", desired_state, timeout),
              StateWaitFor_precheck(ut[u], t, u, desired_state), "sw_lock")

StateWaitForLock(t, u) ==
  /\ th[t].pc = "sw_lock"
  /\ LockFree(ut[u])
  /\ LET w == StateWaitFor_locked(Fresh(ut[u]), t, th[t].newstate, th[t].block)
     IN Finish(t, u, th[t], w, IF w.at = "spin" THEN "sw_spin" ELSE "sw_wait")
  /\ UNCHANGED calls

StateWaitForWake(t, u) ==
  /\ th[t].pc = "sw_wait"
  /\ Signalled(ut[u], t) /\ LockFree(ut[u])
  /\ Finish(t, u, th[t],
            StateWaitFor_wake(Fresh(ut[u]), t, th[t].newstate, th[t].timedout),
            "sw_wait")
  /\ UNCHANGED calls

\* the wait_until of a call with a finite timeout expires
WaitTimeout(t, u) ==
  /\ th[t].pc \in {"rs_wait", "sw_wait", "sleep_wait"} /\ th[t].block = "finite"
  /\ ~Signalled(ut[u], t)
  /\ ut' = [ut EXCEPT ![u] =
              [Fresh(@) EXCEPT !.waiting = [c \in Conds |-> @[c] \ {t}]]]
  /\ th' = [th EXCEPT ![t] =
              [@ EXCEPT !.timedout = TRUE,
                        !.exit_seen = ut[u].state_ \in {"Exiting", "Exited"}]]
  /\ ev' = NoEvent
  /\ UNCHANGED calls

\* StateWaitFor(newstate, remaining_wait_time) has returned inside the loop
\* of a RequestState with a finite timeout.  expired: remaining_wait_time,
\* less the time the wait took, is not positive.
RequestState_wake_timed(r, t, u, newstate, timedout, expired) ==
  LET w == StateWaitFor_wake(r, t, newstate, timedout) IN
  IF w.k = "wait" THEN w
  ELSE IF w.res \notin {"SUCCESS", "TIMED_OUT"} THEN w
  ELSE IF timedout \/ expired
    THEN Ret(w.r, IF newstate = w.r.state_ THEN "SUCCESS" ELSE "TIMED_OUT")
  ELSE RequestState_loop(w.r, t, u, newstate)

RequestStateWakeTimed(t, u) ==
  /\ th[t].pc = "rs_wait" /\ th[t].block = "finite"
  /\ Signalled(ut[u], t) /\ LockFree(ut[u])
  /\ \E expired \in BOOLEAN :
       Finish(t, u, th[t],
              RequestState_wake_timed(Fresh(ut[u]), t, u, th[t].newstate,
                                      th[t].timedout, expired),
              "rs_wait")
  /\ UNCHANGED calls

\* the states a caller waits for or requests
WaitTargets == {"Idle", "Go", "Exiting", "Exited"}

NextWait ==
  \E u \in UThreads :
    \/ \E t \in Callers :
         \/ Start(t, u, "kOff")
         \/ \E s \in {"Go", "Idle", "Exiting"}, b \in {"kOff", "finite"} :
              CallRequestState(t, u, s, b)
         \/ RequestStateLock(t, u)
         \/ RequestStateWakeTimed(t, u)
         \/ \E s \in WaitTargets, timeout \in Timeouts :
              CallStateWaitFor(t, u, s, timeout)
         \/ StateWaitForLock(t, u)
         \/ StateWaitForWake(t, u)
         \/ WaitTimeout(t, u)
    \/ MainBegin(u)
    \/ ProcState(u)
    \/ CycleTimeout(u)
    \/ CycleWake(u)
    \/ IdleWake(u)
    \/ MainExit(u)
    \/ MainUnregister(u)

SpecWait == Init /\ [][NextWait]_vars

\* C24: StateWaitFor(target, timeout) returns success only if the state
\* equalled target at call time or became target during the call.  A call
\* that returns from its first critical section has held the state mutex
\* from the moment it read the state: when such a call returns success, the
\* state is target.
C24_StateWaitSuccessMeansState ==
  (ev.op = "StateWaitFor" /\ ev.res = "SUCCESS" /\ ev.at = "sw_lock")
    => ut[U1].state_ = ev.newstate

\* C25: a blocking RequestState(X), X other than Exiting, with a finite
\* timeout, whose target thread has become Exiting or Exited while the
\* caller was waiting, returns ShuttingDown or ResourceUnavailable, never
\* TimedOut (nor success).  The call looked at here began to wait with the
\* state neither Exiting nor Exited, and the state was Exiting or Exited
\* already when its wait expired.
C25_TimedRequestSeesExit ==
  ( /\ ev.op = "RequestState" /\ ev.block = "finite" /\ ev.at = "rs_wait"
    /\ ev.newstate \in {"Go", "Idle"}
    /\ ev.exit_seen )
  => ev.res \in {"SHUTTING_DOWN", "RESOURCE_UNAVAILABLE"}

\* C26: when a pending request is cancelled by another caller that
\* re-requests the thread's current state, a caller blocked without timeout
\* in RequestState(X), X being the cancelled request, is woken: it does not
\* stay in its wait for ever.  (Stated for the first caller; the callers are
\* interchangeable.)
C26_CancelWakesWaiters ==
  LET t == <<"caller", 1>> IN
    ( /\ th[t].pc = "rs_wait" /\ th[t].op = "RequestState" /\ th[t].block = "kOn"
      /\ ev.op = "RequestState" /\ ev.t # t
      /\ ev.at = "rs_lock" /\ ev.res = "SUCCESS"
      /\ ev.newstate = ut[U1].state_
      /\ ev.found = th[t].newstate
      /\ ut[U1].requested_state_ = "Invalid" )
    ~> (th[t].pc # "rs_wait")

-----------------------------------------------------------------------------
\* UThread::Sleep(max_duration), called by the thread function.  max_duration
\* is Duration(0) ("kOff"), finite and positive, or Duration::Min() ("kOn":
\* sleep until woken).

\* from LockState() to the wait on go_cond_, or to the return
Sleep_locked(r, t, max_duration) ==
  IF is_state_changing(r) THEN Ret(r, "INTERRUPTED_OPERATION")
  ELSE IF max_duration = "kOff" THEN Ret(r, "SUCCESS")
  ELSE Blk(CondWait(r, "go_cond_", t), "sleep_wait")

\* the wait on go_cond_ has returned: StateCondWait's result is dropped;
\* StateCondWaitFor's result is returned unless it is TIMED_OUT
Sleep_wake(r, max_duration, timedout) ==
  LET res == IF timedout THEN "TIMED_OUT" ELSE "SUCCESS" IN
  IF max_duration = "kOn" THEN Ret(r, "INTERRUPTED_OPERATION")
  ELSE IF res # "TIMED_OUT" THEN Ret(r, res)
  ELSE Ret(r, "SUCCESS")

CallSleep(u, max_duration) ==
  /\ th[MT(u)].pc = "body"
  /\ MakeCall
  /\ LockFree(ut[u])
  /\ Finish(MT(u), u, NewCall("Sleep", "Invalid", max_duration),
            Sleep_locked(Fresh(ut[u]), MT(u), max_duration), "sleep_wait")

SleepWake(u) ==
  /\ th[MT(u)].pc = "sleep_wait"
  /\ Signalled(ut[u], MT(u)) /\ LockFree(ut[u])
  /\ Finish(MT(u), u, th[MT(u)],
            Sleep_wake(Fresh(ut[u]), th[MT(u)].block, th[MT(u)].timedout),
            "sleep_wait")
  /\ UNCHANGED calls

\* UThread::RunOneCycle(block) is RunNCycles(1, block), whose first statement
\* returns NOT_IMPLEMENTED: no field of the object is read or written
RunNCycles(r, n_cycles, block) == Ret(r, "NOT_IMPLEMENTED")

CallRunOneCycle(t, u, block) ==
  /\ th[t].pc = Home(t)
  /\ MakeCall
  /\ Finish(t, u, NewCall("RunOneCycle", "Invalid", block),
            RunNCycles(Fresh(ut[u]), 1, block), Home(t))

NextSleep ==
  \E u \in UThreads :
    \/ \E t \in Callers :
         \/ \E b \in Blockings : Start(t, u, b)
         \/ StartWake(t, u)
         \/ \E s \in {"Go", "Idle", "Exiting"}, b \in Blockings :
              CallRequestState(t, u, s, b)
         \/ RequestStateLock(t, u)
         \/ RequestStateWake(t, u)
         \/ \E b \in Blockings : CallRunOneCycle(t, u, b)
    \/ \E max_duration \in Timeouts : CallSleep(u, max_duration)
    \/ SleepWake(u)
    \/ WaitTimeout(MT(u), u)
    \/ MainBegin(u)
    \/ ProcState(u)
    \/ CycleTimeout(u)
    \/ CycleWake(u)
    \/ IdleWake(u)
    \/ MainExit(u)
    \/ MainUnregister(u)

SpecSleep == Init /\ [][NextSleep]_vars

\* C27: a Sleep that finds a state change pending returns
\* INTERRUPTED_OPERATION without sleeping; a Sleep whose wait is ended by a
\* state request before max_duration has elapsed returns
\* INTERRUPTED_OPERATION, for a finite max_duration as for an indefinite one;
\* Sleep returns SUCCESS only if the whole duration elapsed with no request.
C27_SleepInterrupted ==
  [][ /\ (th[M1].pc = "body" /\ is_state_changing(ut[U1]))
         => /\ th'[M1].pc # "sleep_wait"
            /\ ev'.op = "Sleep" => ev'.res = "INTERRUPTED_OPERATION"
      /\ (th[M1].pc = "sleep_wait" /\ ~th[M1].timedout /\ ev'.op = "Sleep")
         => ev'.res = "INTERRUPTED_OPERATION"
      /\ (ev'.op = "Sleep" /\ ev'.res = "SUCCESS")
         => /\ th[M1].pc = "sleep_wait" => th[M1].timedout
            /\ th[M1].pc = "body" => ~is_state_changing(ut[U1])
    ]_vars

\* C28: a thread parked in a suspension of an object (the cycle wait, the
\* Idle park, the pause park, Sleep, the wait of a blocking call, or the
\* wait at the Go barrier of RequestStateMultiple inside ProcState) does not
\* hold that object's state mutex.
C28_ParkedWithoutLock ==
  \A t \in DOMAIN th :
    (th[t].pc \in WaitPcs \cup {"barrier_wait", "barrier_wait_changed"}
       /\ Obj(t) \in DOMAIN ut)
      => ut[Obj(t)].state_ready_mutex_ # t

\* a thread other than the managed one takes the step: its record changes or
\* its call returns
CallerActs == \E t \in Callers : th'[t] # th[t] \/ ev'.t = t

\* C29: only the managed thread changes the state away from Init, Idle, Go
\* or Exiting, and it takes the state mutex to do so.  A step of RequestState,
\* Run, Idle, Exit, Pause or Unpause made by another thread leaves state_ and
\* prev_state_ as they were, invokes no listener and leaves thread_ and
\* is_between_cycles_ alone; of the object's data it writes requested_state_
\* and the pause flags only.  (Start, by another thread, writes state_ only
\* when there is no managed thread: from Invalid or Exited.)
C29_OnlyManagedChangesState ==
  [][ LET r == ut[U1]
          r2 == ut'[U1]
      IN /\ CallerActs
              => \/ /\ r2.state_ = r.state_ /\ r2.prev_state_ = r.prev_state_
                    /\ r2.thread_ = r.thread_
                    /\ r2.is_between_cycles_ = r.is_between_cycles_
                    /\ r2.listener_calls = NoListenerCall
                 \/ /\ ev'.op = "Start" \/ \E t \in Callers : th'[t].op = "Start"
                    /\ r.state_ \in {"Invalid", "Exited"}
                    /\ r2.prev_state_ = r.prev_state_
         /\ ( /\ r.state_ \in {"Init", "Idle", "Go", "Exiting"}
              /\ r2.state_ # r.state_ \/ r2.prev_state_ # r.prev_state_ )
              => /\ ~CallerActs
                 /\ th[M1].pc \notin {"none", "begin", "unregister"}
                 /\ LockFree(r)
    ]_vars

\* a caller's RequestState(kGo) has returned SUCCESS on the idle thread: the
\* request is written, the state is still Idle
C29_Witness ==
  /\ ev.t \in Callers /\ ev.op = "RequestState" /\ ev.res = "SUCCESS"
  /\ ev.newstate = "Go" /\ ev.at = "rs_lock"
  /\ ut[U1].state_ = "Idle" /\ ut[U1].requested_state_ = "Go"

\* a ProcState call of the managed thread returns in this step: into the
\* thread function, or into SetSelfExiting, which then returns SUCCESS
ProcStateReturns ==
  \/ ev'.op = "SetSelfExiting" /\ ev'.res = "SUCCESS"
  \/ /\ ~CallerActs /\ ev'.t # M1
     /\ th[M1].op = "none" /\ th'[M1].op = "none"
     /\ th[M1].pc \in {"body", "cyclewait", "idlepark", "paused"}
     /\ th'[M1].pc \in {"body", "exit"}

\* the managed thread calls ProcState in this step while the state is Exiting
ProcStateCalledExiting ==
  /\ ut[U1].state_ = "Exiting" /\ ~CallerActs
  /\ \/ th[M1].pc = "sse_procstate"
     \/ /\ th[M1].pc = "body" /\ th[M1].op = "none"
        /\ th'[M1].op = "none" /\ ev'.t # M1

\* the call that returns in this step returns kExit
ReturnsExit == ut'[U1].last_procstate \in {"kExit", "kExitAgain"}

\* C30: ProcState returns kExit exactly when the state is Exiting at its
\* return, kContinue otherwise.  A ProcState call made while the state is
\* already Exiting applies no transition and waits nowhere (no pause is
\* pending then): it returns kExit in the step it is made in.  After a
\* ProcState call has returned kExit, every later call returns kExit.
C30_ProcStateExit ==
  [][ /\ ProcStateReturns => (ReturnsExit <=> ut'[U1].state_ = "Exiting")
      /\ ProcStateCalledExiting
           => /\ ut'[U1].state_ = "Exiting"
              /\ ut'[U1].prev_state_ = ut[U1].prev_state_
              /\ ut'[U1].requested_state_ = ut[U1].requested_state_
              /\ ut'[U1].listener_calls = NoListenerCall
              /\ th'[M1].pc \notin WaitPcs
              /\ ProcStateReturns /\ ReturnsExit
      /\ (ProcStateReturns /\ ut[U1].last_procstate \in {"kExit", "kExitAgain"})
           => ReturnsExit
    ]_vars

\* a ProcState call made after an earlier one had returned kExit, the state
\* being Exiting, has returned kExit
C30_Witness ==
  /\ ut[U1].last_procstate = "kExitAgain"
  /\ ut[U1].state_ = "Exiting" /\ th[M1].pc = "exit"

-----------------------------------------------------------------------------
\* C31: a call with a zero timeout does not block.  RequestState(X,
\* Duration(0)) and StateWaitFor(X, Duration(0)) are over once they have
\* taken the state mutex: such a call is never found waiting, nor going round
\* a loop, whatever X and the state of the thread.
C31_ZeroTimeoutNeverBlocks ==
  \A t \in Callers :
    (th[t].op \in {"RequestState", "StateWaitFor"} /\ th[t].block = "kOff")
      => th[t].pc \in {"rs_lock", "sw_lock"}

\* evo::GetThisUThread called by the managed thread of object u: the object
\* its entry of g_uthread_registry points to, 0 (nullptr) without an entry
GetThisUThread(r, u) == IF r.registered THEN u ELSE 0

\* C32: from the start of the thread function to its return, GetThisUThread
\* called by the managed thread returns the thread's own object; once
\* _mainThreadFunc has returned, the thread has no entry in the registry.
C32_RegistryLifecycle ==
  \A u \in UThreads :
    /\ th[MT(u)].pc \notin {"none", "begin", "unregister"}
         => GetThisUThread(ut[u], u) = u
    /\ th[MT(u)].pc = "none" => GetThisUThread(ut[u], u) = 0

\* the thread function has run and _mainThreadFunc has returned
C32_Witness ==
  /\ th[M1].pc = "none" /\ ut[U1].state_ = "Exited" /\ ~ut[U1].registered
  /\ ut[U1].prev_state_ = "Exiting"

\* C33: an object that has an entry in the registry has not been destroyed:
\* when ~UThread returns, the registry holds no entry for the object's thread.
C33_RegisteredNotFreed ==
  ev.op = "~UThread" => GetThisUThread(ut[U1], U1) = 0

\* C34: RunOneCycle(Blocking::kOn) called on an idle thread returns SUCCESS,
\* and only after a ProcState pass has run: it does not return from the step
\* it was called in.
C34_RunOneCycleRunsOnePass ==
  ( /\ ev.op = "RunOneCycle" /\ ev.block = "kOn"
    /\ ut[U1].state_ = "Idle" /\ th[M1].pc = "idlepark" )
    => ev.res = "SUCCESS" /\ ev.at # Home(ev.t)

\* C35: ProcState never returns to the thread function with the state Idle:
\* after a return of ProcState the thread is in its thread function only in
\* state Go or Exiting, so that "assert (State::kIdle != state_)" holds at
\* the next call.
C35_NeverReturnsIdle ==
  (th[M1].pc = "body" /\ ut[U1].last_procstate # "none")
    => ut[U1].state_ \in {"Go", "Exiting"}

\* C36: the assertions of Pause.  A Pause call that waited on paused_cond_
\* is woken only by the thread parking in ConsiderPause_locked (or the thread
\* is unavailable), and when the call resumes, the state mutex taken again,
\* is_pause_pending_ is false.
C36_PauseAssertions ==
  [][ /\ \A t \in Callers :
           ( /\ t \in ut[U1].waiting["paused_cond_"]
             /\ t \notin ut'[U1].waiting["paused_cond_"] )
             => \/ ~ut[U1].is_paused_ /\ ut'[U1].is_paused_
                \/ ~is_available(ut'[U1])
      /\ (ev'.op = "Pause" /\ ev'.at = "pause_wait")
           => ~ut[U1].is_pause_pending_
    ]_vars

\* C37: a wake of the cycle wait that comes with no state change does not
\* end the cycle.  When the thread, woken from the timed wait on go_cond_
\* before the period has elapsed, takes the state mutex again and no request
\* is pending, it goes back to the cycle wait: ProcState does not return.
C37_SpuriousWakeSleepsOn ==
  [][ ( /\ th[M1].pc = "cyclewait" /\ ~th[M1].timedout
        /\ Signalled(ut[U1], M1)
        /\ ~is_state_changing(ut[U1]) )
        => th'[M1].pc = "cyclewait"
    ]_vars

\* C38: every Pause() call returns, provided the managed thread goes on
\* calling ProcState.  A caller that waits in Pause on paused_cond_ leaves
\* the wait, unless the thread parks in Idle or leaves its thread function.
\* (Stated for the first caller; the callers are interchangeable.)
C38_PauseReturns ==
  LET t == <<"caller", 1>> IN
    (th[t].pc = "pause_wait")
      ~> \/ th[t].pc # "pause_wait"
         \/ th[M1].pc \in {"idlepark", "exit", "unregister", "none"}

\* C39: when RequestStateMultiple(threads, kGo) has returned, no thread of
\* the list refers to the call's locals any more: set_state_multiple_info_
\* of every object is cleared (in_progress is false) and no managed thread
\* is at the barrier.  While the call lasts, the pending count the threads
\* decrement at the barrier is not negative.
C39_BarrierReleased ==
  /\ th[Coordinator].pc = "done"
       => \A u \in Participants :
            /\ ~ut[u].in_progress
            /\ th[MT(u)].pc \notin {"barrier", "barrier_changed", "barrier_wait",
                                    "barrier_wait_changed", "barrier_lost"}
  /\ RsmActive => th[Coordinator].go_state_pending_count >= 0

\* C40: a timed-out request is not withdrawn.  When RequestState(X, timeout)
\* returns TIMED_OUT and no other caller has overwritten the request since
\* (here: nothing but Start and this one RequestState has been called in the
\* run), requested_state_ is still X, for the thread to apply at a later
\* checkpoint.
C40_TimedOutRequestStays ==
  (ev.op = "RequestState" /\ ev.block = "finite" /\ ev.res = "TIMED_OUT"
     /\ calls = 2)
    => ut[U1].requested_state_ = ev.newstate

====
